---- MODULE Spec2Model ----
(***************************************************************************)
(* HypeFlow: the decision engine, the execution pipeline of the periodic   *)
(* agent (scripts/hypeflow-agent.ts), its chain helpers (src/lib/aptos.ts) *)
(* and the on-chain ledger (module HypeFlow::sentiment_trader).            *)
(*                                                                         *)
(* Numbers.  Sentiment scores and thresholds are in hundredths             *)
(* (0.4 is 40).  Confidence is an exact fraction [n, d] in lowest terms.   *)
(* Amounts of APT are whole tokens (Math.round produces integers), USDC    *)
(* balances and the APT price are in cents.  Floating-point rounding error *)
(* of the arithmetic is not modelled.                                      *)
(***************************************************************************)
EXTENDS Integers, Sequences, FiniteSets, TLC

VARIABLES
    currentlyInvested,  \* CONFIG.decisionConfig.currentlyInvested
    mockMode,           \* CONFIG.mockMode (MOCK_SWAPS === "true")
    traderAddressSet,   \* process.env.SENTIMENT_TRADER_ADDRESS is set
    cyc,                \* the invocations of runHypeFlowAgent in flight
    ledger,             \* the HypeFlowState resource of the account
    now,                \* timestamp::now_seconds()
    lastCall,           \* the last entry function called and its outcome
    calc                \* a direct call of a function, or a run of the transfer script

vars == <<currentlyInvested, mockMode, traderAddressSet, cyc, ledger, now, lastCall, calc>>

agentVars == <<currentlyInvested, mockMode, traderAddressSet, cyc>>

ledgerVars == <<ledger, now, lastCall>>

-----------------------------------------------------------------------------
(* Bounds *)

\* ledger records written in one run
MaxRecords == 3

\* largest chain timestamp
MaxNow == 1

-----------------------------------------------------------------------------
(* Exact fractions *)

RECURSIVE GCD(_, _)
GCD(a, b) == IF b = 0 THEN a ELSE GCD(b, a % b)

Abs(x) == IF x < 0 THEN -x ELSE x

\* the fraction n/d (d > 0) in lowest terms
Rat(n, d) ==
    LET g == GCD(Abs(n), d)
    IN  IF n = 0 THEN [n |-> 0, d |-> 1] ELSE [n |-> n \div g, d |-> d \div g]

RatLT(a, b) == a.n * b.d < b.n * a.d

RatMul(a, b) == Rat(a.n * b.n, a.d * b.d)

RatMin(a, b) == IF RatLT(b, a) THEN b ELSE a

RatMax(a, b) == IF RatLT(a, b) THEN b ELSE a

\* Math.round of the fraction n/d: floor(n/d + 1/2)
MathRound(n, d) == (2 * n + d) \div (2 * d)

-----------------------------------------------------------------------------
(* Decision logic (src/lib/decisionLogic) *)

ActionType == {"BUY", "SELL", "DEPOSIT", "WITHDRAW", "HOLD"}

bullishThreshold == 40

bearishThreshold == -20

minTweetVolume == 2

maxPositionSize == 100

maxDataAgeMinutes == 30

dataAgeMinutes == 0

\* CONFIG.decisionConfig, with the current value of the investment flag
DecisionConfig(invested) ==
    [bullishThreshold  |-> bullishThreshold,
     bearishThreshold  |-> bearishThreshold,
     minTweetVolume    |-> minTweetVolume,
     maxPositionSize   |-> maxPositionSize,
     currentlyInvested |-> invested]

\* An optional number is << >> (undefined) or <<v>>.
Undefined == << >>

\* As the volume check, but only an empty sample is insufficient.
InsufficientDataEmptyOnly(tweetCount, config) == tweetCount < 1

\* `tweetCount < config.minTweetVolume`
InsufficientData(tweetCount, config) == tweetCount < config.minTweetVolume

\* As the bullish test, but the threshold itself counts as bullish.
IsBullishInclusive(sentimentScore, config) == sentimentScore >= config.bullishThreshold

\* `sentimentScore > config.bullishThreshold`
IsBullish(sentimentScore, config) == sentimentScore > config.bullishThreshold

\* As the bearish test, but the threshold itself counts as bearish.
IsBearishInclusive(sentimentScore, config) ==
    ~IsBullish(sentimentScore, config) /\ sentimentScore <= config.bearishThreshold

\* `else if (sentimentScore < config.bearishThreshold)`
IsBearish(sentimentScore, config) ==
    ~IsBullish(sentimentScore, config) /\ sentimentScore < config.bearishThreshold

\* As the bullish confidence, but not scaled to the room above the threshold.
BullishConfidenceUnscaled(sentimentScore, config) ==
    RatMin(Rat(sentimentScore - config.bullishThreshold, 100), Rat(1, 1))

\* confidence of the bullish scenario
BullishConfidence(sentimentScore, config) ==
    RatMin(Rat(sentimentScore - config.bullishThreshold,
               100 - config.bullishThreshold), Rat(1, 1))

\* confidence of the bearish scenario
BearishConfidence(sentimentScore, config) ==
    RatMin(Rat(config.bearishThreshold - sentimentScore,
               config.bearishThreshold + 100), Rat(1, 1))

\* confidence of the neutral zone
NeutralConfidence == Rat(1, 2)

\* action of the bullish scenario
BullishAction(config) == IF config.currentlyInvested THEN "DEPOSIT" ELSE "BUY"

\* As the bearish action, but the investment flag is ignored.
BearishActionSellOnly(config) == "SELL"

\* action of the bearish scenario
BearishAction(config) == IF config.currentlyInvested THEN "WITHDRAW" ELSE "SELL"

\* As the suggested amount, but truncated instead of rounded.
SuggestedAmountTruncated(action, confidence, config) ==
    IF action # "HOLD"
    THEN (config.maxPositionSize * confidence.n) \div confidence.d
    ELSE 0

\* suggestedAmount of a decision that passed the volume check
SuggestedAmountOf(action, confidence, config) ==
    IF action # "HOLD"
    THEN MathRound(config.maxPositionSize * confidence.n, confidence.d)
    ELSE 0

\* makeDecision(sentimentScore, tweetCount, config)
makeDecision(sentimentScore, tweetCount, config) ==
    IF InsufficientData(tweetCount, config)
    THEN [action |-> "HOLD", confidence |-> Rat(0, 1),
          reason |-> "InsufficientData", note |-> "",
          suggestedAmount |-> Undefined]
    ELSE
      LET bullish == IsBullish(sentimentScore, config)
          bearish == IsBearish(sentimentScore, config)
          confidence ==
              IF bullish THEN BullishConfidence(sentimentScore, config)
              ELSE IF bearish THEN BearishConfidence(sentimentScore, config)
              ELSE NeutralConfidence
          action ==
              IF bullish THEN BullishAction(config)
              ELSE IF bearish THEN BearishAction(config)
              ELSE "HOLD"
          reason ==
              IF bullish
              THEN (IF config.currentlyInvested THEN "PositiveDeposit" ELSE "PositiveBuy")
              ELSE IF bearish
              THEN (IF config.currentlyInvested THEN "NegativeWithdraw" ELSE "NegativeSell")
              ELSE "Neutral"
      IN  [action |-> action, confidence |-> confidence,
           reason |-> reason, note |-> "",
           suggestedAmount |-> <<SuggestedAmountOf(action, confidence, config)>>]

\* As the freshness test, but data of exactly the maximum age is stale.
IsFreshStrict(ageMinutes, maxAgeMinutes) == ageMinutes < maxAgeMinutes

\* `dataAgeMinutes <= maxAgeMinutes`
IsFresh(ageMinutes, maxAgeMinutes) == ageMinutes <= maxAgeMinutes

\* As the age factor, but decaying over one maximum age instead of three.
AgeFactorSteep(ageMinutes, maxAgeMinutes) ==
    RatMax(Rat(0, 1), Rat(2 * maxAgeMinutes - ageMinutes, maxAgeMinutes))

\* As the age factor, with the sign of the decay reversed:
\* 1 + (age - max) / (3 max).
AgeFactorGrowing(ageMinutes, maxAgeMinutes) ==
    RatMax(Rat(0, 1), Rat(2 * maxAgeMinutes + ageMinutes, 3 * maxAgeMinutes))

\* ageFactor: 1 - (age - max) / (3 max) = (4 max - age) / (3 max), at least 0
AgeFactor(ageMinutes, maxAgeMinutes) ==
    RatMax(Rat(0, 1), Rat(4 * maxAgeMinutes - ageMinutes, 3 * maxAgeMinutes))

\* adjustedAmount: a missing or zero amount is falsy
AdjustedAmount(amt, ageFactor) ==
    IF amt # Undefined /\ amt[1] # 0
    THEN <<MathRound(amt[1] * ageFactor.n, ageFactor.d)>>
    ELSE Undefined

\* As the downgrade test, but with an activation floor of 0.1.
DropsToHoldBelowTenth(adjustedConfidence, action) ==
    RatLT(adjustedConfidence, Rat(1, 10)) /\ action # "HOLD"

\* `adjustedConfidence < 0.2 && decisionResult.action !== "HOLD"`
DropsToHold(adjustedConfidence, action) ==
    RatLT(adjustedConfidence, Rat(1, 5)) /\ action # "HOLD"

\* adjustForDataAge(decisionResult, dataAgeMinutes, maxAgeMinutes)
adjustForDataAge(decisionResult, ageMinutes, maxAgeMinutes) ==
    IF IsFresh(ageMinutes, maxAgeMinutes)
    THEN decisionResult
    ELSE
      LET ageFactor == AgeFactor(ageMinutes, maxAgeMinutes)
          adjustedConfidence == RatMul(decisionResult.confidence, ageFactor)
          adjustedAmount == AdjustedAmount(decisionResult.suggestedAmount, ageFactor)
      IN  IF DropsToHold(adjustedConfidence, decisionResult.action)
          THEN [action |-> "HOLD", confidence |-> adjustedConfidence,
                reason |-> decisionResult.reason, note |-> "ChangedToHold",
                suggestedAmount |-> <<0>>]
          ELSE [decisionResult EXCEPT !.confidence = adjustedConfidence,
                                      !.note = "DataOld",
                                      !.suggestedAmount = adjustedAmount]

\* adjustedDecision.suggestedAmount || 0
AmountOrZero(amt) == IF amt = Undefined THEN 0 ELSE amt[1]

\* no decision yet
NoDecision ==
    [action |-> "none", confidence |-> Rat(0, 1), reason |-> "", note |-> "",
     suggestedAmount |-> Undefined]

\* no direct call of the decision logic
NoCall ==
    [stage |-> "none", source |-> "none", sentimentScore |-> 0, tweetCount |-> 0,
     config |-> DecisionConfig(FALSE), dataAgeMinutes |-> 0,
     maxAgeMinutes |-> maxDataAgeMinutes,
     decision |-> NoDecision, adjusted |-> NoDecision]

-----------------------------------------------------------------------------
(* Chain helpers (src/lib/aptos.ts) *)

APT_COIN_ADDRESS == "0x1::aptos_coin::AptosCoin"

USDC_COIN_ADDRESS == "0x1::aptos_coin::AptosCoin"

APT_DECIMALS == 8

USDC_DECIMALS == 6

\* getAptPrice(): the mock price 15.75 USD, in cents
AptPriceCents == 1575

getAptPrice == [ok |-> TRUE, price |-> AptPriceCents]

TokenAddress(token) == IF token = "APT" THEN APT_COIN_ADDRESS ELSE USDC_COIN_ADDRESS

\* The sign of rawAmount = Math.floor(amount * 10^decimals).  Amounts are
\* whole tokens (APT) or whole cents (USDC) and decimals is at least 2, so
\* the raw amount is a positive multiple of the amount.
RawAmountSign(token, amount) ==
    LET decimals == IF token = "APT" THEN APT_DECIMALS ELSE USDC_DECIMALS - 2
    IN  IF amount > 0 /\ decimals >= 0 THEN 1 ELSE IF amount = 0 THEN 0 ELSE -1

\* As recordSentimentTrade, but a failed submission is thrown to the caller.
recordSentimentTradeRethrows(addressSet, agentOk, txOk) ==
    IF ~addressSet
    THEN [status |-> "skipped-no-address", submitted |-> FALSE, threw |-> FALSE]
    ELSE IF ~agentOk
    THEN [status |-> "skipped-general-error", submitted |-> FALSE, threw |-> FALSE]
    ELSE IF ~txOk
    THEN [status |-> "none", submitted |-> TRUE, threw |-> TRUE]
    ELSE [status |-> "txhash", submitted |-> TRUE, threw |-> FALSE]

\* recordSentimentTrade(sentimentScore, confidence): the returned status,
\* whether a transaction was submitted and whether the call threw.
\* agentOk: initMoveAgentKit resolves; txOk: sendTransaction resolves.
recordSentimentTrade(addressSet, agentOk, txOk) ==
    IF ~addressSet
    THEN [status |-> "skipped-no-address", submitted |-> FALSE, threw |-> FALSE]
    ELSE IF ~agentOk
    THEN [status |-> "skipped-general-error", submitted |-> FALSE, threw |-> FALSE]
    ELSE IF ~txOk
    THEN [status |-> "skipped-tx-error", submitted |-> TRUE, threw |-> FALSE]
    ELSE [status |-> "txhash", submitted |-> TRUE, threw |-> FALSE]

RecordErrorStatus == {"skipped-no-address", "skipped-general-error", "skipped-tx-error"}

\* how sendTransaction settles: resolved, or rejected with a BCS error, with
\* "module doesn't exist", or with another error
TxOutcomes == {"ok", "bcs", "missing", "error"}

\* swapTokens(fromToken, toToken, amount): ok is FALSE when it throws.
swapTokens(fromToken, toToken, amount, mockSwaps, agentOk, txOutcome) ==
    IF fromToken = toToken
    THEN [ok |-> FALSE, ref |-> "Cannot swap the same token", submitted |-> FALSE]
    ELSE IF amount <= 0
    THEN [ok |-> FALSE, ref |-> "Invalid amount", submitted |-> FALSE]
    ELSE IF mockSwaps
    THEN [ok |-> TRUE, ref |-> "mock-tx-hash", submitted |-> FALSE]
    ELSE IF ~agentOk
    THEN [ok |-> FALSE, ref |-> "Failed to swap tokens", submitted |-> FALSE]
    ELSE IF RawAmountSign(fromToken, amount) <= 0
    THEN [ok |-> FALSE, ref |-> "Failed to swap tokens", submitted |-> FALSE]
    ELSE IF TokenAddress(fromToken) = TokenAddress(toToken)
    THEN [ok |-> TRUE, ref |-> "simulated-tx-hash", submitted |-> FALSE]
    ELSE IF txOutcome = "ok"
    THEN [ok |-> TRUE, ref |-> "txhash", submitted |-> TRUE]
    ELSE IF txOutcome = "bcs"
    THEN [ok |-> FALSE, ref |-> "Failed to swap tokens: BCS serialization error",
          submitted |-> TRUE]
    ELSE [ok |-> FALSE, ref |-> "Failed to swap tokens", submitted |-> TRUE]

\* The submission block of the later revision of swapTokens (try / catch
\* around sendTransaction and the enclosing catch): ok is FALSE when it throws.
swapSendTransaction(txOutcome) ==
    IF txOutcome = "ok"
    THEN [ok |-> TRUE, ref |-> "txhash", submitted |-> TRUE]
    ELSE IF txOutcome = "bcs"
    THEN [ok |-> FALSE, ref |-> "Failed to swap tokens: BCS serialization error",
          submitted |-> TRUE]
    ELSE IF txOutcome = "missing"
    THEN [ok |-> TRUE, ref |-> "simulated-fallback-tx-hash", submitted |-> TRUE]
    ELSE [ok |-> FALSE, ref |-> "Failed to swap tokens", submitted |-> TRUE]

-----------------------------------------------------------------------------
(* The ledger: module HypeFlow::sentiment_trader *)

ERR_UNAUTHORIZED == 1

ERR_INSUFFICIENT_BALANCE == 2

\* abort code of initialize when the resource exists (assert!(..., 0))
ERR_ALREADY_INITIALIZED == 0

\* abort of table::add on a key that is present
EALREADY_EXISTS == 100

\* arguments of the entry functions
SentimentScores == {50, 150}

TweetVolumes == {20}

TradeAmounts == {10, 25}

TradeConfidences == {50}

\* The account before initialize: no HypeFlowState resource is published.
\* The fields are placeholders and are read only when exists is TRUE.
NoLedger ==
    [exists |-> FALSE, sentiment_history |-> << >>, trade_history |-> << >>,
     current_sentiment |-> 0, is_invested |-> FALSE, next_record_id |-> 0,
     trade_events |-> << >>]

\* The outcome of an entry function: the new resource, or an abort (the
\* transaction is rolled back).
Ok(state) == [ok |-> TRUE, code |-> 0, state |-> state]

Abort(code, state) == [ok |-> FALSE, code |-> code, state |-> state]

\* As table::add, but the table keeps the new entry only.
TableAddReplacing(table, key, value) == (key :> value)

\* table::add(table, key, value)
TableAdd(table, key, value) == (key :> value) @@ table

\* As initialize, but the counter of record ids starts at 1.
initialize_from_one(state) ==
    IF state.exists THEN Abort(ERR_ALREADY_INITIALIZED, state)
    ELSE Ok([exists |-> TRUE, sentiment_history |-> << >>, trade_history |-> << >>,
             current_sentiment |-> 0, is_invested |-> FALSE, next_record_id |-> 1,
             trade_events |-> << >>])

\* As initialize, without the check that the resource is absent.
initialize_resetting(state) ==
    Ok([exists |-> TRUE, sentiment_history |-> << >>, trade_history |-> << >>,
        current_sentiment |-> 0, is_invested |-> FALSE, next_record_id |-> 0,
        trade_events |-> << >>])

\* initialize(account)
initialize(state) ==
    IF state.exists THEN Abort(ERR_ALREADY_INITIALIZED, state)
    ELSE Ok([exists |-> TRUE, sentiment_history |-> << >>, trade_history |-> << >>,
             current_sentiment |-> 0, is_invested |-> FALSE, next_record_id |-> 0,
             trade_events |-> << >>])

\* As update_sentiment, but the resource is rebuilt with the initial flag.
update_sentiment_resets_flag(state, t, sentiment_score, tweet_volume) ==
    IF ~state.exists THEN Abort(ERR_UNAUTHORIZED, state)
    ELSE
      LET record_id == state.next_record_id
      IN  Ok([state EXCEPT
                !.current_sentiment = sentiment_score,
                !.sentiment_history =
                    TableAdd(@, record_id,
                             [timestamp |-> t, sentiment_score |-> sentiment_score,
                              tweet_volume |-> tweet_volume,
                              action_taken |-> "PENDING"]),
                !.is_invested = FALSE,
                !.next_record_id = record_id + 1])

\* update_sentiment(account, sentiment_score, tweet_volume)
update_sentiment(state, t, sentiment_score, tweet_volume) ==
    IF ~state.exists THEN Abort(ERR_UNAUTHORIZED, state)
    ELSE
      LET record_id == state.next_record_id
      IN  IF record_id \in DOMAIN state.sentiment_history
          THEN Abort(EALREADY_EXISTS, state)
          ELSE Ok([state EXCEPT
                     !.current_sentiment = sentiment_score,
                     !.sentiment_history =
                         TableAdd(@, record_id,
                                  [timestamp |-> t, sentiment_score |-> sentiment_score,
                                   tweet_volume |-> tweet_volume,
                                   action_taken |-> "PENDING"]),
                     !.next_record_id = record_id + 1])

\* As execute_buy, without the check of is_invested.
execute_buy_unguarded(state, t, amount, confidence) ==
    IF ~state.exists THEN Abort(ERR_UNAUTHORIZED, state)
    ELSE
      LET record_id == state.next_record_id
      IN  Ok([state EXCEPT
                !.trade_history =
                    TableAdd(@, record_id,
                             [timestamp |-> t, action |-> "BUY",
                              amount |-> amount, confidence |-> confidence]),
                !.trade_events =
                    Append(@, [timestamp |-> t, action |-> "BUY",
                               amount |-> amount, confidence |-> confidence,
                               sentiment_score |-> state.current_sentiment]),
                !.is_invested = TRUE,
                !.next_record_id = record_id + 1])

\* execute_buy(account, amount, confidence)
execute_buy(state, t, amount, confidence) ==
    IF ~state.exists THEN Abort(ERR_UNAUTHORIZED, state)
    ELSE IF state.is_invested THEN Abort(ERR_INSUFFICIENT_BALANCE, state)
    ELSE
      LET record_id == state.next_record_id
      IN  IF record_id \in DOMAIN state.trade_history
          THEN Abort(EALREADY_EXISTS, state)
          ELSE Ok([state EXCEPT
                     !.trade_history =
                         TableAdd(@, record_id,
                                  [timestamp |-> t, action |-> "BUY",
                                   amount |-> amount, confidence |-> confidence]),
                     !.trade_events =
                         Append(@, [timestamp |-> t, action |-> "BUY",
                                    amount |-> amount, confidence |-> confidence,
                                    sentiment_score |-> state.current_sentiment]),
                     !.is_invested = TRUE,
                     !.next_record_id = record_id + 1])

\* As execute_sell, but no event is emitted.
execute_sell_silent(state, t, amount, confidence) ==
    IF ~state.exists THEN Abort(ERR_UNAUTHORIZED, state)
    ELSE IF ~state.is_invested THEN Abort(ERR_INSUFFICIENT_BALANCE, state)
    ELSE
      LET record_id == state.next_record_id
      IN  Ok([state EXCEPT
                !.trade_history =
                    TableAdd(@, record_id,
                             [timestamp |-> t, action |-> "SELL",
                              amount |-> amount, confidence |-> confidence]),
                !.is_invested = FALSE,
                !.next_record_id = record_id + 1])

\* As execute_sell, but is_invested is left as it was.
execute_sell_keeps_flag(state, t, amount, confidence) ==
    IF ~state.exists THEN Abort(ERR_UNAUTHORIZED, state)
    ELSE IF ~state.is_invested THEN Abort(ERR_INSUFFICIENT_BALANCE, state)
    ELSE
      LET record_id == state.next_record_id
      IN  IF record_id \in DOMAIN state.trade_history
          THEN Abort(EALREADY_EXISTS, state)
          ELSE Ok([state EXCEPT
                     !.trade_history =
                         TableAdd(@, record_id,
                                  [timestamp |-> t, action |-> "SELL",
                                   amount |-> amount, confidence |-> confidence]),
                     !.trade_events =
                         Append(@, [timestamp |-> t, action |-> "SELL",
                                    amount |-> amount, confidence |-> confidence,
                                    sentiment_score |-> state.current_sentiment]),
                     !.next_record_id = record_id + 1])

\* execute_sell(account, amount, confidence)
execute_sell(state, t, amount, confidence) ==
    IF ~state.exists THEN Abort(ERR_UNAUTHORIZED, state)
    ELSE IF ~state.is_invested THEN Abort(ERR_INSUFFICIENT_BALANCE, state)
    ELSE
      LET record_id == state.next_record_id
      IN  IF record_id \in DOMAIN state.trade_history
          THEN Abort(EALREADY_EXISTS, state)
          ELSE Ok([state EXCEPT
                     !.trade_history =
                         TableAdd(@, record_id,
                                  [timestamp |-> t, action |-> "SELL",
                                   amount |-> amount, confidence |-> confidence]),
                     !.trade_events =
                         Append(@, [timestamp |-> t, action |-> "SELL",
                                    amount |-> amount, confidence |-> confidence,
                                    sentiment_score |-> state.current_sentiment]),
                     !.is_invested = FALSE,
                     !.next_record_id = record_id + 1])

\* A transaction that called an entry function settles with outcome r: an
\* abort rolls the transaction back and leaves the resource as it was.
Committed(r) == IF r.ok THEN r.state ELSE ledger

\* the run writes at most MaxRecords records
WithinBound(r) == r.ok => r.state.next_record_id <= MaxRecords

Outcome(fn, r) == [fn |-> fn, aborted |-> ~r.ok, code |-> r.code]

Initialize ==
    /\ ledger' = Committed(initialize(ledger))
    /\ lastCall' = Outcome("initialize", initialize(ledger))
    /\ UNCHANGED <<now, agentVars, calc>>

UpdateSentiment ==
    \E s \in SentimentScores, v \in TweetVolumes :
        LET r == update_sentiment(ledger, now, s, v)
        IN  /\ WithinBound(r)
            /\ ledger' = Committed(r)
            /\ lastCall' = Outcome("update_sentiment", r)
            /\ UNCHANGED <<now, agentVars, calc>>

ExecuteBuy ==
    \E a \in TradeAmounts, k \in TradeConfidences :
        LET r == execute_buy(ledger, now, a, k)
        IN  /\ WithinBound(r)
            /\ ledger' = Committed(r)
            /\ lastCall' = Outcome("execute_buy", r)
            /\ UNCHANGED <<now, agentVars, calc>>

ExecuteSell ==
    \E a \in TradeAmounts, k \in TradeConfidences :
        LET r == execute_sell(ledger, now, a, k)
        IN  /\ WithinBound(r)
            /\ ledger' = Committed(r)
            /\ lastCall' = Outcome("execute_sell", r)
            /\ UNCHANGED <<now, agentVars, calc>>

\* chain time advances
AdvanceTime ==
    /\ now < MaxNow
    /\ now' = now + 1
    /\ UNCHANGED <<ledger, lastCall, agentVars, calc>>

LedgerNext ==
    \/ Initialize
    \/ UpdateSentiment
    \/ ExecuteBuy
    \/ ExecuteSell
    \/ AdvanceTime

-----------------------------------------------------------------------------
(* The agent (scripts/hypeflow-agent.ts) *)

\* invocations of runHypeFlowAgent that can be in flight together
Cycles == {1, 2}

\* overall sentiment of a batch of tweets, in hundredths
Sentiments == {-100, -60, -40, -20, 10, 40, 55, 70, 100}

\* number of unique tweets of a batch
TweetCounts == {1, 20}

\* APT balances (whole tokens) and USDC balances (cents) of the wallet
AptBalances == {0, 60}

UsdcBalances == {0, 100000}

\* pc: the await at which the invocation is suspended.
\*   "idle"      not started            "tweets"    getMockTweetsWithSentiment
\*   "record"    recordSentimentTrade   "holdings"  getWalletBalances
\*   "price"     getAptPrice            "swap"      swapTokens
\*   "post"      postToTwitter          "flip"      executeOnChainAction returned
\*   "done"      the invocation returned
\* result is the value returned by executeOnChainAction ("none" before it
\* returns or when it is not called).  The *Calls fields count the calls the
\* invocation made to each collaborator; invBefore is the flag the decision
\* read; balFailed / swapFailed record a collaborator that rejected.
IdleCycle ==
    [pc |-> "idle", action |-> "HOLD", amount |-> 0, confidence |-> Rat(0, 1),
     invBefore |-> FALSE, result |-> "none", recStatus |-> "none",
     apt |-> 0, usdc |-> 0,
     recCalls |-> 0, balCalls |-> 0, priceCalls |-> 0, swapCalls |-> 0,
     postCalls |-> 0, balFailed |-> FALSE, swapFailed |-> FALSE, swapOk |-> FALSE]

Init ==
    /\ currentlyInvested = FALSE
    /\ mockMode \in BOOLEAN
    /\ traderAddressSet \in BOOLEAN
    /\ cyc = [c \in Cycles |-> IdleCycle]
    /\ ledger = NoLedger
    /\ now = 0
    /\ lastCall = [fn |-> "none", aborted |-> FALSE, code |-> 0]
    /\ calc = NoCall

\* setInterval(runHypeFlowAgent, ...) fires (or the first direct call):
\* the invocation runs up to `await getMockTweetsWithSentiment(hashtag)`.
\* The new invocation takes the lowest free slot (the slots are
\* interchangeable); a finished invocation keeps its record until its slot
\* is taken again.
StartCycle(c) ==
    /\ cyc[c].pc \in {"idle", "done"}
    /\ \A b \in Cycles : b < c => cyc[b].pc \notin {"idle", "done"}
    /\ cyc' = [cyc EXCEPT ![c] = [IdleCycle EXCEPT !.pc = "tweets"]]
    /\ UNCHANGED <<currentlyInvested, mockMode, traderAddressSet, ledgerVars, calc>>

\* As ShouldExecute, without the test of the action.
ShouldExecuteAnyAction(d) == RatLT(Rat(1, 4), d.confidence)

\* the gate of step 5: adjustedDecision.confidence > 0.25 && action !== "HOLD"
ShouldExecute(d) == RatLT(Rat(1, 4), d.confidence) /\ d.action # "HOLD"

\* Steps 2-5 of runHypeFlowAgent up to the first await of
\* executeOnChainAction (the call of recordSentimentTrade), or to the end of
\* the invocation when no action is taken.
Decide(c) ==
    /\ cyc[c].pc = "tweets"
    /\ \E s \in Sentiments, n \in TweetCounts :
         LET decisionResult == makeDecision(s, n, DecisionConfig(currentlyInvested))
             adjustedDecision ==
                 adjustForDataAge(decisionResult, dataAgeMinutes, maxDataAgeMinutes)
         IN  IF ShouldExecute(adjustedDecision)
             THEN cyc' = [cyc EXCEPT ![c] =
                      [@ EXCEPT !.pc = "record",
                                !.action = adjustedDecision.action,
                                !.amount = AmountOrZero(adjustedDecision.suggestedAmount),
                                !.confidence = adjustedDecision.confidence,
                                !.invBefore = currentlyInvested,
                                !.recCalls = @ + 1]]
             ELSE cyc' = [cyc EXCEPT ![c] =
                      [@ EXCEPT !.pc = "done",
                                !.action = adjustedDecision.action,
                                !.confidence = adjustedDecision.confidence,
                                !.invBefore = currentlyInvested]]
    /\ UNCHANGED <<currentlyInvested, mockMode, traderAddressSet, ledgerVars, calc>>

\* As Returned, but a false result is thrown out of runHypeFlowAgent.
ReturnedOrRejected(cy, r) ==
    IF r = "false"
    THEN [cy EXCEPT !.pc = "rejected", !.result = r]
    ELSE [cy EXCEPT !.pc = "flip", !.result = r]

\* The call of a collaborator by invocation c: bump its counter.
\* executeOnChainAction returns r ("true" / "false"): control is back in
\* runHypeFlowAgent at the await of step 5.
Returned(cy, r) == [cy EXCEPT !.pc = "flip", !.result = r]

\* After the action branch of executeOnChainAction: the feedback post for
\* every action but HOLD, then `return true`.
PostOrReturn(cy) ==
    IF cy.action # "HOLD"
    THEN [cy EXCEPT !.pc = "post", !.postCalls = @ + 1]
    ELSE Returned(cy, "true")

\* As AfterRecord, but an error status of the recording aborts the call.
AfterRecordAbortsOnError(cy, rec, mock) ==
    LET cy1 == [cy EXCEPT !.recStatus = rec.status]
    IN  IF rec.status \in RecordErrorStatus
        THEN Returned(cy1, "false")
        ELSE IF mock
        THEN PostOrReturn(cy1)
        ELSE [cy1 EXCEPT !.pc = "holdings", !.balCalls = @ + 1]

\* As AfterRecord, but the mock branch is missing.
AfterRecordIgnoresMock(cy, rec, mock) ==
    [cy EXCEPT !.recStatus = rec.status, !.pc = "holdings", !.balCalls = @ + 1]

\* What executeOnChainAction does with the settled recordSentimentTrade
\* (lines 132-182): the status is logged, never inspected; in mock mode the
\* action is only logged, otherwise getWalletBalances is called.
AfterRecord(cy, rec, mock) ==
    LET cy1 == [cy EXCEPT !.recStatus = rec.status]
    IN  IF mock
        THEN PostOrReturn(cy1)
        ELSE [cy1 EXCEPT !.pc = "holdings", !.balCalls = @ + 1]

\* recordSentimentTrade settles.
RecordDone(c) ==
    /\ cyc[c].pc = "record"
    /\ \E agentOk \in BOOLEAN, txOk \in BOOLEAN :
         cyc' = [cyc EXCEPT ![c] =
                   AfterRecord(@, recordSentimentTrade(traderAddressSet, agentOk, txOk),
                               mockMode)]
    /\ UNCHANGED <<currentlyInvested, mockMode, traderAddressSet, ledgerVars, calc>>

\* getWalletBalances resolves with the balances and getAptPrice is called.
HoldingsDone(c) ==
    /\ cyc[c].pc = "holdings"
    /\ \E a \in AptBalances, u \in UsdcBalances :
         cyc' = [cyc EXCEPT ![c] =
                   [@ EXCEPT !.pc = "price", !.apt = a, !.usdc = u,
                             !.priceCalls = @ + 1]]
    /\ UNCHANGED <<currentlyInvested, mockMode, traderAddressSet, ledgerVars, calc>>

\* As HoldingsFail, but the call goes on with balances kept from an earlier
\* fetch.
HoldingsFailReusesBalances(c) ==
    /\ cyc[c].pc = "holdings"
    /\ cyc' = [cyc EXCEPT ![c] =
                 [@ EXCEPT !.balFailed = TRUE, !.pc = "price", !.apt = 60,
                           !.usdc = 100000, !.priceCalls = @ + 1]]
    /\ UNCHANGED <<currentlyInvested, mockMode, traderAddressSet, ledgerVars, calc>>

\* getWalletBalances rejects (initMoveAgentKit or getBalance failed): the
\* inner catch (lines 273-279) returns false.
HoldingsFail(c) ==
    /\ cyc[c].pc = "holdings"
    /\ cyc' = [cyc EXCEPT ![c] = Returned([@ EXCEPT !.balFailed = TRUE], "false")]
    /\ UNCHANGED <<currentlyInvested, mockMode, traderAddressSet, ledgerVars, calc>>

\* BUY pre-flight check (lines 196-205): usdcAmount = amount * aptPrice
BuyUnitsMixed(cy, aptPrice) == cy.usdc < cy.amount

BuyRejected(cy, aptPrice) == cy.usdc < cy.amount * aptPrice

\* SELL pre-flight check (lines 218-224)
SellChecksEmptyOnly(cy) == cy.apt <= 0

SellRejected(cy) == cy.apt < cy.amount

\* DEPOSIT pre-flight check (lines 237-243)
DepositRejected(cy) == cy.apt < cy.amount

\* The action branch of real mode (lines 195-264), entered with the balances
\* and the price: either returns false (insufficient funds), calls
\* swapTokens, or goes on to the feedback post.
ActionBranch(cy, aptPrice) ==
    IF cy.action = "BUY"
    THEN IF BuyRejected(cy, aptPrice)
         THEN Returned(cy, "false")
         ELSE [cy EXCEPT !.pc = "swap", !.swapCalls = @ + 1]
    ELSE IF cy.action = "SELL"
    THEN IF SellRejected(cy)
         THEN Returned(cy, "false")
         ELSE [cy EXCEPT !.pc = "swap", !.swapCalls = @ + 1]
    ELSE IF cy.action = "DEPOSIT"
    THEN IF DepositRejected(cy)
         THEN Returned(cy, "false")
         ELSE PostOrReturn(cy)
    ELSE PostOrReturn(cy)

\* getAptPrice settles.
PriceDone(c) ==
    /\ cyc[c].pc = "price"
    /\ cyc' = [cyc EXCEPT ![c] =
                 IF getAptPrice.ok
                 THEN ActionBranch(@, getAptPrice.price)
                 ELSE Returned(@, "false")]
    /\ UNCHANGED <<currentlyInvested, mockMode, traderAddressSet, ledgerVars, calc>>

\* The arguments of the swapTokens call of a BUY or a SELL.
SwapArgs(cy, aptPrice) ==
    IF cy.action = "BUY"
    THEN [from |-> "USDC", to |-> "APT", amount |-> cy.amount * aptPrice]
    ELSE [from |-> "APT", to |-> "USDC", amount |-> cy.amount]

\* As AfterSwap, but the catch only logs and the call goes on.
AfterSwapSwallowsError(cy, res) ==
    IF res.ok
    THEN PostOrReturn([cy EXCEPT !.swapOk = TRUE])
    ELSE PostOrReturn([cy EXCEPT !.swapFailed = TRUE])

\* As AfterSwap, but a rejected swap is tried a second time.
AfterSwapRetries(cy, res) ==
    IF res.ok
    THEN PostOrReturn([cy EXCEPT !.swapOk = TRUE])
    ELSE IF cy.swapCalls < 2
    THEN [cy EXCEPT !.swapCalls = @ + 1]
    ELSE Returned([cy EXCEPT !.swapFailed = TRUE], "false")

\* What executeOnChainAction does with the settled swapTokens: the hash is
\* logged and the post follows; a rejection is caught and false returned.
AfterSwap(cy, res) ==
    IF res.ok
    THEN PostOrReturn([cy EXCEPT !.swapOk = TRUE])
    ELSE Returned([cy EXCEPT !.swapFailed = TRUE], "false")

\* swapTokens settles.
SwapDone(c) ==
    /\ cyc[c].pc = "swap"
    /\ \E agentOk \in BOOLEAN, txOutcome \in TxOutcomes :
         LET args == SwapArgs(cyc[c], getAptPrice.price)
         IN  cyc' = [cyc EXCEPT ![c] =
                       AfterSwap(@, swapTokens(args.from, args.to, args.amount,
                                               mockMode, agentOk, txOutcome))]
    /\ UNCHANGED <<currentlyInvested, mockMode, traderAddressSet, ledgerVars, calc>>

\* postToTwitter settles (it catches its own errors): return true.
PostDone(c) ==
    /\ cyc[c].pc = "post"
    /\ cyc' = [cyc EXCEPT ![c] = Returned(@, "true")]
    /\ UNCHANGED <<currentlyInvested, mockMode, traderAddressSet, ledgerVars, calc>>

\* As NextInvested, without the DEPOSIT disjunct.
NextInvestedBuyOnly(cy, invested) == cy.action = "BUY"

\* The value runHypeFlowAgent stores in CONFIG.decisionConfig.currentlyInvested
\* once executeOnChainAction has settled (lines 365-368).
NextInvested(cy, invested) == cy.action = "BUY" \/ cy.action = "DEPOSIT"

\* `await executeOnChainAction(...)` resumes: the state update of step 5.
Flip(c) ==
    /\ cyc[c].pc = "flip"
    /\ currentlyInvested' = NextInvested(cyc[c], currentlyInvested)
    /\ cyc' = [cyc EXCEPT ![c].pc = "done"]
    /\ UNCHANGED <<mockMode, traderAddressSet, ledgerVars, calc>>

Next ==
    \E c \in Cycles :
        \/ StartCycle(c)
        \/ Decide(c)
        \/ RecordDone(c)
        \/ HoldingsDone(c)
        \/ HoldingsFail(c)
        \/ PriceDone(c)
        \/ SwapDone(c)
        \/ PostDone(c)
        \/ Flip(c)

Spec == Init /\ [][Next]_vars

LedgerSpec == Init /\ [][LedgerNext]_vars

-----------------------------------------------------------------------------
(* Direct calls of executeOnChainAction: the same call made in a process *)
(* started with MOCK_SWAPS=true and in a process started without it      *)

\* the process whose CONFIG.mockMode is true
MockProcess == 1

\* the process whose CONFIG.mockMode is false
RealProcess == 2

\* the arguments (amount, confidence) of the call
ExecAmounts ==
    {[amount |-> 0, confidence |-> Rat(1, 2)],
     [amount |-> 50, confidence |-> Rat(1, 2)],
     [amount |-> 100, confidence |-> Rat(1, 1)]}

\* executeOnChainAction(action, amount, confidence) has been entered and
\* awaits recordSentimentTrade
ExecCall(action, amount, confidence) ==
    [IdleCycle EXCEPT !.pc = "record", !.action = action, !.amount = amount,
                      !.confidence = confidence, !.recCalls = 1]

ExecInit ==
    /\ currentlyInvested = FALSE
    /\ mockMode = FALSE
    /\ traderAddressSet \in BOOLEAN
    /\ \E a \in ActionType, x \in ExecAmounts :
         cyc = [c \in Cycles |-> ExecCall(a, x.amount, x.confidence)]
    /\ ledger = NoLedger
    /\ now = 0
    /\ lastCall = [fn |-> "none", aborted |-> FALSE, code |-> 0]
    /\ calc = NoCall

\* recordSentimentTrade settles in process c, which then reads its own
\* CONFIG.mockMode.
ExecRecordDone(c) ==
    /\ cyc[c].pc = "record"
    /\ \E agentOk \in BOOLEAN, txOk \in BOOLEAN :
         cyc' = [cyc EXCEPT ![c] =
                   AfterRecord(@, recordSentimentTrade(traderAddressSet, agentOk, txOk),
                               c = MockProcess)]
    /\ UNCHANGED <<currentlyInvested, mockMode, traderAddressSet, ledgerVars, calc>>

ExecNext ==
    \E c \in Cycles :
        \/ ExecRecordDone(c)
        \/ HoldingsDone(c)
        \/ HoldingsFail(c)
        \/ PriceDone(c)
        \/ SwapDone(c)
        \/ PostDone(c)

ExecSpec == ExecInit /\ [][ExecNext]_vars

-----------------------------------------------------------------------------
(* Direct calls of makeDecision and adjustForDataAge *)

\* sentimentScore, in hundredths, within [-1, 1]
ScoreInputs ==
    {-100, -95, -90, -60, -50, -21, -20, -19, 0, 10,
     40, 41, 47, 55, 58, 70, 90, 95, 100}

\* tweetCount
VolumeInputs == {0, 1, 2, 5}

\* (bearishThreshold, bullishThreshold) with -1 < bearish < bullish < 1
ThresholdInputs ==
    {[bearish |-> bearishThreshold, bullish |-> bullishThreshold],
     [bearish |-> -50, bullish |-> 0],
     [bearish |-> -90, bullish |-> 90]}

\* config.minTweetVolume
MinVolumeInputs == {minTweetVolume, 5}

\* config.maxPositionSize
PositionInputs == {maxPositionSize, 15}

\* the DecisionConfig objects passed to makeDecision
ConfigInputs ==
    {[bullishThreshold  |-> t.bullish,
      bearishThreshold  |-> t.bearish,
      minTweetVolume    |-> v,
      maxPositionSize   |-> p,
      currentlyInvested |-> i] :
        t \in ThresholdInputs, v \in MinVolumeInputs,
        p \in PositionInputs, i \in BOOLEAN}

\* dataAgeMinutes
AgeInputs == {0, 10, 11, 30, 31, 40, 60, 90, 119, 120, 150}

\* maxAgeMinutes
MaxAgeInputs == {maxDataAgeMinutes, 10}

\* DecisionResult objects a caller passes to adjustForDataAge directly
ResultInputs ==
    {[action |-> a, confidence |-> c, reason |-> "Given", note |-> "",
      suggestedAmount |-> m] :
        a \in ActionType,
        c \in {Rat(0, 1), Rat(1, 10), Rat(1, 4), Rat(3, 10), Rat(1, 2), Rat(1, 1)},
        m \in {Undefined, <<0>>, <<25>>, <<50>>}}

\* the arguments of a call of makeDecision followed by adjustForDataAge
ScoreCalls ==
    {[stage |-> "input", source |-> "makeDecision", sentimentScore |-> s,
      tweetCount |-> n, config |-> c, dataAgeMinutes |-> a, maxAgeMinutes |-> m,
      decision |-> NoDecision, adjusted |-> NoDecision] :
        s \in ScoreInputs, n \in VolumeInputs, c \in ConfigInputs,
        a \in AgeInputs, m \in MaxAgeInputs}

\* the arguments of a call of adjustForDataAge alone
ResultCalls ==
    {[stage |-> "decided", source |-> "caller", sentimentScore |-> 0,
      tweetCount |-> 0, config |-> DecisionConfig(FALSE),
      dataAgeMinutes |-> a, maxAgeMinutes |-> m,
      decision |-> d, adjusted |-> NoDecision] :
        d \in ResultInputs, a \in AgeInputs, m \in MaxAgeInputs}

DecisionInit ==
    /\ currentlyInvested = FALSE
    /\ mockMode = FALSE
    /\ traderAddressSet = FALSE
    /\ cyc = [c \in Cycles |-> IdleCycle]
    /\ ledger = NoLedger
    /\ now = 0
    /\ lastCall = [fn |-> "none", aborted |-> FALSE, code |-> 0]
    /\ calc \in ScoreCalls \cup ResultCalls

\* makeDecision(sentimentScore, tweetCount, config) is called
CallMakeDecision ==
    /\ calc.stage = "input"
    /\ calc' = [calc EXCEPT
                  !.stage = "decided",
                  !.decision = makeDecision(calc.sentimentScore, calc.tweetCount,
                                            calc.config)]
    /\ UNCHANGED <<agentVars, ledgerVars>>

\* adjustForDataAge(decisionResult, dataAgeMinutes, maxAgeMinutes) is called
CallAdjustForDataAge ==
    /\ calc.stage = "decided"
    /\ calc' = [calc EXCEPT
                  !.stage = "adjusted",
                  !.adjusted = adjustForDataAge(calc.decision, calc.dataAgeMinutes,
                                                calc.maxAgeMinutes)]
    /\ UNCHANGED <<agentVars, ledgerVars>>

DecisionNext == CallMakeDecision \/ CallAdjustForDataAge

DecisionSpec == DecisionInit /\ [][DecisionNext]_vars

-----------------------------------------------------------------------------
(* Direct calls of the chain helpers *)

\* swapTokens(fromToken, toToken, amount): amounts in whole tokens or cents
SwapAmountInputs == {0, 50, 78750}

NoResult == [ok |-> FALSE, ref |-> "", submitted |-> FALSE]

\* the arguments of a call of recordSentimentTrade and its environment
RecordCalls ==
    {[stage |-> "input", source |-> "recordSentimentTrade",
      args |-> [addressSet |-> a, agentOk |-> g, txOk |-> t],
      result |-> NoResult] :
        a \in BOOLEAN, g \in BOOLEAN, t \in BOOLEAN}

\* the arguments of a call of swapTokens and its environment
SwapCalls ==
    {[stage |-> "input", source |-> "swapTokens",
      args |-> [fromToken |-> f, toToken |-> t, amount |-> x, mockSwaps |-> m,
                agentOk |-> g, txOutcome |-> o],
      result |-> NoResult] :
        f \in {"APT", "USDC"}, t \in {"APT", "USDC"}, x \in SwapAmountInputs,
        m \in BOOLEAN, g \in BOOLEAN, o \in TxOutcomes}

\* the submission block entered, with the way sendTransaction settles
SubmitCalls ==
    {[stage |-> "input", source |-> "swapSendTransaction",
      args |-> [txOutcome |-> o], result |-> NoResult] : o \in TxOutcomes}

ChainInit ==
    /\ currentlyInvested = FALSE
    /\ mockMode = FALSE
    /\ traderAddressSet = FALSE
    /\ cyc = [c \in Cycles |-> IdleCycle]
    /\ ledger = NoLedger
    /\ now = 0
    /\ lastCall = [fn |-> "none", aborted |-> FALSE, code |-> 0]
    /\ calc \in RecordCalls \cup SwapCalls \cup SubmitCalls

\* recordSentimentTrade settles
CallRecordSentimentTrade ==
    /\ calc.stage = "input" /\ calc.source = "recordSentimentTrade"
    /\ calc' = [calc EXCEPT
                  !.stage = "returned",
                  !.result = recordSentimentTrade(calc.args.addressSet,
                                                  calc.args.agentOk, calc.args.txOk)]
    /\ UNCHANGED <<agentVars, ledgerVars>>

\* swapTokens settles
CallSwapTokens ==
    /\ calc.stage = "input" /\ calc.source = "swapTokens"
    /\ calc' = [calc EXCEPT
                  !.stage = "returned",
                  !.result = swapTokens(calc.args.fromToken, calc.args.toToken,
                                        calc.args.amount, calc.args.mockSwaps,
                                        calc.args.agentOk, calc.args.txOutcome)]
    /\ UNCHANGED <<agentVars, ledgerVars>>

\* the submission block settles
CallSwapSendTransaction ==
    /\ calc.stage = "input" /\ calc.source = "swapSendTransaction"
    /\ calc' = [calc EXCEPT
                  !.stage = "returned",
                  !.result = swapSendTransaction(calc.args.txOutcome)]
    /\ UNCHANGED <<agentVars, ledgerVars>>

ChainNext ==
    \/ CallRecordSentimentTrade
    \/ CallSwapTokens
    \/ CallSwapSendTransaction

ChainSpec == ChainInit /\ [][ChainNext]_vars

-----------------------------------------------------------------------------
(* The interactive transfer script (src/scripts/tokenTransfer.ts) *)

\* octas per APT
OctasPerApt == 100000000

\* CONFIG.gasAmount and CONFIG.gasUnitPrice
gasAmount == 2000

gasUnitPrice == 100

\* answers to "Enter receiver address: "
ReceiverInputs == {"", " ", "not-hex", "0xb0b"}

\* receiverAddress.trim()
Trim(s) == IF s = " " THEN "" ELSE s

\* TxnBuilderTypes.AccountAddress.fromHex(receiverAddress) does not throw
IsHexAddress(s) == s = "0xb0b"

\* answers to "Enter amount to transfer (in APT): ": text that parseFloat
\* turns into NaN, or a number given in hundredths of APT
AmountInputs ==
    {[nan |-> TRUE, hundredths |-> 0], [nan |-> FALSE, hundredths |-> -100],
     [nan |-> FALSE, hundredths |-> 0], [nan |-> FALSE, hundredths |-> 50],
     [nan |-> FALSE, hundredths |-> 100]}

\* Math.floor(parseFloat(amountInput) * 100000000), in octas (0 for NaN,
\* which is told apart by the nan field); a hundredth of APT is a whole
\* number of octas
ParseOctas(amountInput) ==
    IF amountInput.nan THEN 0
    ELSE amountInput.hundredths * (OctasPerApt \div 100)

\* `isNaN(amount) || amount <= 0`
InvalidAmount(amountInput) == amountInput.nan \/ ParseOctas(amountInput) <= 0

\* answers to "Confirm transaction? (y/n): "
ConfirmationInputs == {"y", "Y", "n", "", "yes"}

\* confirmation.toLowerCase()
ToLowerCase(s) == IF s = "Y" THEN "y" ELSE s

\* the transfer goes on: `confirmation.toLowerCase() !== "y"` is false
Confirmed(confirmation) == ToLowerCase(confirmation) = "y"

\* sender balances returned by getAccountResource, in octas
SenderBalances == {0, 50000000, 50200000, 100200000}

\* `BigInt(senderBalance) < BigInt(amount) + CONFIG.gasAmount * CONFIG.gasUnitPrice`
InsufficientBalance(senderBalance, amount) ==
    senderBalance < amount + gasAmount * gasUnitPrice

\* transferTokens() entered.  pc is the await at which it is suspended:
\*   "start"     not yet run              "receiver"  question(receiver)
\*   "amount"    question(amount)         "confirm"   question(confirm)
\*   "balances"  getAccountResource (initial balances)
\*   "account"   Promise.all([getAccount, getChainId])
\*   "submit"    submitSignedBCSTransaction
\*   "wait"      waitForTransactionWithResult
\*   "final"     getAccountResource (final balances)
\*   "returned"  the promise settled (result: "true", "false" or "threw")
TransferCall(keySet) ==
    [stage |-> "input", source |-> "transferTokens", pc |-> "start",
     keySet |-> keySet, amount |-> 0, confirmation |-> "none",
     fetched |-> FALSE, senderBalance |-> 0, submitCalls |-> 0,
     result |-> "none"]

\* the outer catch: log, rl.close(), rethrow
Threw(call) == [call EXCEPT !.stage = "returned", !.pc = "returned", !.result = "threw"]

TransferInit ==
    /\ currentlyInvested = FALSE
    /\ mockMode = FALSE
    /\ traderAddressSet = FALSE
    /\ cyc = [c \in Cycles |-> IdleCycle]
    /\ ledger = NoLedger
    /\ now = 0
    /\ lastCall = [fn |-> "none", aborted |-> FALSE, code |-> 0]
    /\ calc \in {TransferCall(k) : k \in BOOLEAN}

\* the script runs up to the first question
StartTransfer ==
    /\ calc.source = "transferTokens" /\ calc.pc = "start"
    /\ calc' = IF calc.keySet THEN [calc EXCEPT !.pc = "receiver"] ELSE Threw(calc)
    /\ UNCHANGED <<agentVars, ledgerVars>>

\* the receiver address is entered
ReceiverAnswered ==
    /\ calc.source = "transferTokens" /\ calc.pc = "receiver"
    /\ \E receiverAddress \in ReceiverInputs :
         calc' = IF Trim(receiverAddress) = "" \/ ~IsHexAddress(receiverAddress)
                 THEN Threw(calc)
                 ELSE [calc EXCEPT !.pc = "amount"]
    /\ UNCHANGED <<agentVars, ledgerVars>>

\* the amount is entered
AmountAnswered ==
    /\ calc.source = "transferTokens" /\ calc.pc = "amount"
    /\ \E amountInput \in AmountInputs :
         calc' = IF InvalidAmount(amountInput)
                 THEN Threw(calc)
                 ELSE [calc EXCEPT !.pc = "confirm", !.amount = ParseOctas(amountInput)]
    /\ UNCHANGED <<agentVars, ledgerVars>>

\* the confirmation is entered
ConfirmationAnswered ==
    /\ calc.source = "transferTokens" /\ calc.pc = "confirm"
    /\ \E confirmation \in ConfirmationInputs :
         calc' = IF Confirmed(confirmation)
                 THEN [calc EXCEPT !.pc = "balances", !.confirmation = confirmation]
                 ELSE [calc EXCEPT !.stage = "returned", !.pc = "returned",
                                   !.confirmation = confirmation, !.result = "false"]
    /\ UNCHANGED <<agentVars, ledgerVars>>

\* the initial balances are fetched: the insufficient-balance error is
\* thrown inside the try whose catch logs "Could not fetch balances", so
\* after every outcome the script goes on to build the transaction
InitialBalancesFetched ==
    /\ calc.source = "transferTokens" /\ calc.pc = "balances"
    /\ \E senderBalance \in SenderBalances :
         calc' = [calc EXCEPT !.pc = "account", !.fetched = TRUE,
                              !.senderBalance = senderBalance]
    /\ UNCHANGED <<agentVars, ledgerVars>>

\* getAccountResource rejects: the same catch
InitialBalancesFailed ==
    /\ calc.source = "transferTokens" /\ calc.pc = "balances"
    /\ calc' = [calc EXCEPT !.pc = "account"]
    /\ UNCHANGED <<agentVars, ledgerVars>>

\* getAccount and getChainId settle; the transaction is signed and
\* submitSignedBCSTransaction is called
AccountSettled ==
    /\ calc.source = "transferTokens" /\ calc.pc = "account"
    /\ \E ok \in BOOLEAN :
         calc' = IF ok
                 THEN [calc EXCEPT !.pc = "submit", !.submitCalls = @ + 1]
                 ELSE Threw(calc)
    /\ UNCHANGED <<agentVars, ledgerVars>>

\* submitSignedBCSTransaction settles
SubmitSettled ==
    /\ calc.source = "transferTokens" /\ calc.pc = "submit"
    /\ \E ok \in BOOLEAN :
         calc' = IF ok THEN [calc EXCEPT !.pc = "wait"] ELSE Threw(calc)
    /\ UNCHANGED <<agentVars, ledgerVars>>

\* waitForTransactionWithResult settles
WaitSettled ==
    /\ calc.source = "transferTokens" /\ calc.pc = "wait"
    /\ \E ok \in BOOLEAN :
         calc' = IF ok THEN [calc EXCEPT !.pc = "final"] ELSE Threw(calc)
    /\ UNCHANGED <<agentVars, ledgerVars>>

\* the final balances settle (errors are logged): return true
FinalBalancesSettled ==
    /\ calc.source = "transferTokens" /\ calc.pc = "final"
    /\ calc' = [calc EXCEPT !.stage = "returned", !.pc = "returned", !.result = "true"]
    /\ UNCHANGED <<agentVars, ledgerVars>>

TransferNext ==
    \/ StartTransfer
    \/ ReceiverAnswered
    \/ AmountAnswered
    \/ ConfirmationAnswered
    \/ InitialBalancesFetched
    \/ InitialBalancesFailed
    \/ AccountSettled
    \/ SubmitSettled
    \/ WaitSettled
    \/ FinalBalancesSettled

TransferSpec == TransferInit /\ [][TransferNext]_vars

-----------------------------------------------------------------------------
(* Properties of the execution pipeline (specification Spec) *)

\* executeOnChainAction has returned to invocation c
Settled(c) == cyc[c].pc \in {"flip", "done"}

\* invocation c fetched the balances and the price in real mode
Fetched(c) ==
    /\ ~mockMode
    /\ cyc[c].pc \in {"swap", "post", "flip", "done"}
    /\ cyc[c].balCalls = 1 /\ ~cyc[c].balFailed
    /\ cyc[c].priceCalls = 1

\* the step in which invocation c resumes after executeOnChainAction
FlipStep(c) == cyc[c].pc = "flip" /\ cyc'[c].pc = "done"

\* C1: the investment flag is changed only after the swap collaborator
\* reported success: the step that ends a cycle whose executeOnChainAction
\* returned false leaves currentlyInvested as it was.
C1_FlagKeptOnFailure ==
    [][\A c \in Cycles :
          FlipStep(c) /\ cyc[c].result = "false"
              => currentlyInvested' = currentlyInvested]_vars

\* C2: when a cycle whose execution succeeded ends, currentlyInvested is
\* TRUE after a BUY or DEPOSIT and FALSE after a SELL or WITHDRAW.
C2_FlagFollowsSuccessfulAction ==
    [][\A c \in Cycles :
          FlipStep(c) /\ cyc[c].result = "true"
              => /\ cyc[c].action \in {"BUY", "DEPOSIT"} => currentlyInvested'
                 /\ cyc[c].action \in {"SELL", "WITHDRAW"} => ~currentlyInvested']_vars

\* a successful BUY of one cycle made the flag TRUE, a later cycle read it,
\* decided WITHDRAW, succeeded and made the flag FALSE again
C2_Witness ==
    \E c, e \in Cycles :
        /\ cyc[c].pc = "done" /\ cyc[c].result = "true"
        /\ cyc[c].action = "BUY" /\ ~cyc[c].invBefore
        /\ cyc[e].pc = "done" /\ cyc[e].result = "true"
        /\ cyc[e].action = "WITHDRAW" /\ cyc[e].invBefore
        /\ ~currentlyInvested

\* C3: in real mode a BUY whose USDC balance is below amount * price makes
\* executeOnChainAction return false without calling swapTokens.
C3_BuyInsufficientFunds ==
    \A c \in Cycles :
        (/\ Fetched(c)
         /\ cyc[c].action = "BUY"
         /\ cyc[c].usdc < cyc[c].amount * AptPriceCents)
            => /\ Settled(c)
               /\ cyc[c].result = "false"
               /\ cyc[c].swapCalls = 0

\* a BUY rejected with a wallet that holds some USDC, but not enough
C3_Witness ==
    \E c \in Cycles :
        /\ Fetched(c) /\ cyc[c].pc = "done"
        /\ cyc[c].action = "BUY"
        /\ cyc[c].usdc > 0
        /\ cyc[c].usdc < cyc[c].amount * AptPriceCents
        /\ cyc[c].result = "false"

\* C4: in real mode a SELL whose APT balance is below the amount makes
\* executeOnChainAction return false without calling swapTokens.
C4_SellInsufficientFunds ==
    \A c \in Cycles :
        (/\ Fetched(c)
         /\ cyc[c].action = "SELL"
         /\ cyc[c].apt < cyc[c].amount)
            => /\ Settled(c)
               /\ cyc[c].result = "false"
               /\ cyc[c].swapCalls = 0

\* a SELL rejected with a wallet that holds some APT, but not enough
C4_Witness ==
    \E c \in Cycles :
        /\ Fetched(c) /\ cyc[c].pc = "done"
        /\ cyc[c].action = "SELL"
        /\ cyc[c].apt > 0
        /\ cyc[c].apt < cyc[c].amount
        /\ cyc[c].result = "false"

\* the funds fetched by invocation c cover its BUY or SELL
FundsSufficient(c) ==
    IF cyc[c].action = "BUY"
    THEN cyc[c].usdc >= cyc[c].amount * AptPriceCents
    ELSE cyc[c].apt >= cyc[c].amount

\* C5: a failed sentiment recording never prevents the trade attempt of the
\* same call: in real mode the call goes on to fetch the balances, and with
\* sufficient funds and a swap that does not fail it calls swapTokens once
\* and returns true.
C5_RecordFailureDoesNotBlockTrade ==
    \A c \in Cycles :
        (cyc[c].recStatus \in RecordErrorStatus /\ ~mockMode)
            => /\ cyc[c].balCalls = 1
               /\ (/\ Settled(c)
                   /\ cyc[c].action \in {"BUY", "SELL"}
                   /\ Fetched(c)
                   /\ FundsSufficient(c)
                   /\ ~cyc[c].swapFailed)
                      => /\ cyc[c].swapCalls = 1
                         /\ cyc[c].swapOk
                         /\ cyc[c].result = "true"

\* a BUY that went through although the recording transaction failed
C5_Witness ==
    \E c \in Cycles :
        /\ ~mockMode
        /\ cyc[c].recStatus = "skipped-tx-error"
        /\ cyc[c].action = "BUY"
        /\ cyc[c].pc = "done"
        /\ cyc[c].swapOk
        /\ cyc[c].result = "true"

\* C6: every decision cycle attempts to write one sentiment record, also
\* when the decision is HOLD or the confidence is too low to trade.
C6_EveryCycleRecordsSentiment ==
    \A c \in Cycles : cyc[c].pc = "done" => cyc[c].recCalls = 1

\* C7: executeOnChainAction settles with a boolean, and with false whenever
\* the balances fetch or the swap failed.
C7_FailuresSurfaceAsFalse ==
    \A c \in Cycles :
        /\ (Settled(c) /\ cyc[c].recCalls = 1) => cyc[c].result \in {"true", "false"}
        /\ (cyc[c].balFailed \/ cyc[c].swapFailed)
              => Settled(c) /\ cyc[c].result = "false"

\* a SELL with sufficient funds whose swap threw
C7_Witness ==
    \E c \in Cycles :
        /\ cyc[c].pc = "done"
        /\ cyc[c].action = "SELL"
        /\ cyc[c].swapCalls = 1 /\ cyc[c].swapFailed
        /\ cyc[c].result = "false"

-----------------------------------------------------------------------------
(* Properties of the ledger (specification LedgerSpec) *)

\* a step in which a call of entry function fn settles
CallStep(fn) ==
    /\ lastCall'.fn = fn
    /\ <<ledger, lastCall>>' # <<ledger, lastCall>>

TradeKeys(state) == DOMAIN state.trade_history

\* C8: execute_buy while invested and execute_sell while not invested are
\* rejected, and a rejected call leaves the whole resource unchanged.
C8_DoubleEntryRejected ==
    [][/\ (CallStep("execute_buy") /\ ledger.exists /\ ledger.is_invested)
             => lastCall'.aborted
       /\ (CallStep("execute_sell") /\ ledger.exists /\ ~ledger.is_invested)
             => lastCall'.aborted
       /\ lastCall'.aborted => ledger' = ledger]_vars

\* a buy rejected on an invested ledger that already holds records
C8_Witness ==
    /\ lastCall.fn = "execute_buy" /\ lastCall.aborted
    /\ lastCall.code = ERR_INSUFFICIENT_BALANCE
    /\ ledger.exists /\ ledger.is_invested
    /\ ledger.next_record_id >= 2

\* the step appends one trade record with the given action under the
\* current next_record_id and emits one event with that action
AppendsOneTrade(action) ==
    /\ TradeKeys(ledger') = TradeKeys(ledger) \cup {ledger.next_record_id}
    /\ ledger.next_record_id \notin TradeKeys(ledger)
    /\ ledger'.trade_history[ledger.next_record_id].action = action
    /\ \A k \in TradeKeys(ledger) : ledger'.trade_history[k] = ledger.trade_history[k]
    /\ Len(ledger'.trade_events) = Len(ledger.trade_events) + 1
    /\ SubSeq(ledger'.trade_events, 1, Len(ledger.trade_events)) = ledger.trade_events
    /\ ledger'.trade_events[Len(ledger'.trade_events)].action = action

\* C9: the flag moves only NotInvested -> Invested by an accepted
\* execute_buy and Invested -> NotInvested by an accepted execute_sell;
\* every accepted buy or sell is such a move, appends exactly one trade
\* record and emits exactly one trade event; no other step touches the
\* flag, the trade history or the events.
C9_LedgerTransitions ==
    [][ledger.exists =>
          \/ /\ CallStep("execute_buy") /\ ~lastCall'.aborted
             /\ ~ledger.is_invested /\ ledger'.is_invested
             /\ AppendsOneTrade("BUY")
          \/ /\ CallStep("execute_sell") /\ ~lastCall'.aborted
             /\ ledger.is_invested /\ ~ledger'.is_invested
             /\ AppendsOneTrade("SELL")
          \/ /\ ~(lastCall'.fn \in {"execute_buy", "execute_sell"}
                    /\ ~lastCall'.aborted /\ ledger' # ledger)
             /\ ledger'.is_invested = ledger.is_invested
             /\ ledger'.trade_history = ledger.trade_history
             /\ ledger'.trade_events = ledger.trade_events]_vars

\* a buy, a sell and a second buy were accepted
C9_Witness ==
    /\ ledger.exists /\ ledger.is_invested
    /\ Cardinality(TradeKeys(ledger)) = 3
    /\ Len(ledger.trade_events) = 3
    /\ lastCall.fn = "execute_buy" /\ ~lastCall.aborted

\* C10: update_sentiment never changes is_invested, the trade history or
\* the trade events.
C10_SentimentLeavesTradesAlone ==
    [][CallStep("update_sentiment")
          => /\ ledger'.is_invested = ledger.is_invested
             /\ ledger'.trade_history = ledger.trade_history
             /\ ledger'.trade_events = ledger.trade_events]_vars

\* a sentiment observation accepted on an invested ledger
C10_Witness ==
    /\ lastCall.fn = "update_sentiment" /\ ~lastCall.aborted
    /\ ledger.exists /\ ledger.is_invested
    /\ DOMAIN ledger.sentiment_history # {}
    /\ Cardinality(TradeKeys(ledger)) = 1

SentimentKeys(state) == DOMAIN state.sentiment_history

\* C11: the ledger history is append-only: whatever entry function is called,
\* every record present in sentiment_history or trade_history is still there
\* afterwards, under the same id and with the same contents.
C11_HistoryAppendOnly ==
    [][/\ \A k \in SentimentKeys(ledger) :
             /\ k \in SentimentKeys(ledger')
             /\ ledger'.sentiment_history[k] = ledger.sentiment_history[k]
       /\ \A k \in TradeKeys(ledger) :
             /\ k \in TradeKeys(ledger')
             /\ ledger'.trade_history[k] = ledger.trade_history[k]]_vars

\* a second initialize was attempted on a ledger that holds a sentiment
\* record and two trade records
C11_Witness ==
    /\ lastCall.fn = "initialize" /\ lastCall.aborted
    /\ ledger.exists
    /\ Cardinality(SentimentKeys(ledger)) = 1
    /\ Cardinality(TradeKeys(ledger)) = 2

\* a call of update_sentiment, execute_buy or execute_sell that was accepted
AcceptedWrite ==
    /\ \E fn \in {"update_sentiment", "execute_buy", "execute_sell"} : CallStep(fn)
    /\ ~lastCall'.aborted

AllKeys(state) == SentimentKeys(state) \cup TradeKeys(state)

\* C12: record ids increase one by one: an accepted write stores its record
\* under the current next_record_id, which was never used, and increments the
\* counter by exactly 1; nothing else changes the counter or the keys; the key
\* sets of the two histories are disjoint and their union is 0..next_record_id-1.
C12_RecordIdsMonotonic ==
    /\ [](ledger.exists =>
            /\ SentimentKeys(ledger) \cap TradeKeys(ledger) = {}
            /\ AllKeys(ledger) = 0 .. (ledger.next_record_id - 1))
    /\ [][ledger.exists =>
            IF AcceptedWrite
            THEN /\ ledger.next_record_id \notin AllKeys(ledger)
                 /\ AllKeys(ledger') = AllKeys(ledger) \cup {ledger.next_record_id}
                 /\ ledger'.next_record_id = ledger.next_record_id + 1
            ELSE /\ AllKeys(ledger') = AllKeys(ledger)
                 /\ ledger'.next_record_id = ledger.next_record_id]_vars

\* ids 0, 1, 2 were handed out to both histories, the last one to a sell
C12_Witness ==
    /\ lastCall.fn = "execute_sell" /\ ~lastCall.aborted
    /\ ledger.exists /\ ledger.next_record_id = 3
    /\ SentimentKeys(ledger) # {} /\ TradeKeys(ledger) # {}

-----------------------------------------------------------------------------
(* Properties of the decision logic (specification DecisionSpec) *)

\* makeDecision has returned for the arguments held in calc
Decided == calc.source = "makeDecision" /\ calc.stage \in {"decided", "adjusted"}

\* adjustForDataAge has returned for the arguments held in calc
Adjusted == calc.stage = "adjusted"

SufficientVolume == calc.tweetCount >= calc.config.minTweetVolume

RatLE(a, b) == ~RatLT(b, a)

\* a is the integer nearest to n/d, halves rounded up
IsRounded(a, n, d) == (2 * a - 1) * d <= 2 * n /\ 2 * n < (2 * a + 1) * d

\* C13: with fewer samples than minTweetVolume, makeDecision returns HOLD with
\* confidence 0, whatever the sentiment and the investment flag.
C13_InsufficientVolumeHolds ==
    (Decided /\ calc.tweetCount < calc.config.minTweetVolume)
        => /\ calc.decision.action = "HOLD"
           /\ calc.decision.confidence = Rat(0, 1)

\* one tweet of extreme sentiment on an invested configuration
C13_Witness ==
    /\ Decided
    /\ calc.tweetCount = 1 /\ calc.config.minTweetVolume = 2
    /\ calc.sentimentScore = 100 /\ calc.config.currentlyInvested
    /\ calc.decision.action = "HOLD"

\* C14: with enough samples and bearishThreshold <= s <= bullishThreshold
\* (both ends included), makeDecision returns HOLD with confidence exactly 0.5.
C14_NeutralZoneHolds ==
    (/\ Decided /\ SufficientVolume
     /\ calc.config.bearishThreshold <= calc.sentimentScore
     /\ calc.sentimentScore <= calc.config.bullishThreshold)
        => /\ calc.decision.action = "HOLD"
           /\ calc.decision.confidence = Rat(1, 2)

\* the sentiment sits exactly on the bullish threshold
C14_Witness ==
    /\ Decided /\ SufficientVolume
    /\ calc.sentimentScore = calc.config.bullishThreshold
    /\ calc.decision.action = "HOLD"
    /\ calc.decision.confidence = Rat(1, 2)

\* C15: with enough samples, a sentiment above the bullish threshold gives
\* DEPOSIT when invested and BUY otherwise, and a sentiment below the bearish
\* threshold gives WITHDRAW when invested and SELL otherwise.
C15_ActionFollowsInvestment ==
    (Decided /\ SufficientVolume)
        => /\ calc.sentimentScore > calc.config.bullishThreshold
              => calc.decision.action =
                    (IF calc.config.currentlyInvested THEN "DEPOSIT" ELSE "BUY")
           /\ calc.sentimentScore < calc.config.bearishThreshold
              => calc.decision.action =
                    (IF calc.config.currentlyInvested THEN "WITHDRAW" ELSE "SELL")

\* a bearish sentiment on an invested configuration
C15_Witness ==
    /\ Decided /\ SufficientVolume
    /\ calc.sentimentScore < calc.config.bearishThreshold
    /\ calc.config.currentlyInvested
    /\ calc.decision.action = "WITHDRAW"

\* the confidence makeDecision returns for another sentiment score, the other
\* arguments being those in calc
ConfidenceAt(score) == makeDecision(score, calc.tweetCount, calc.config).confidence

\* C16: for a sentiment in [-1, 1] and -1 < bearish < bullish < 1 the
\* confidence lies in [0, 1]; in the bullish and the bearish branch it does not
\* decrease as the sentiment moves further from the crossed threshold, and it
\* is 1 at s = 1 (bullish) and at s = -1 (bearish).
C16_ConfidenceBoundedMonotone ==
    Decided
        => /\ RatLE(Rat(0, 1), calc.decision.confidence)
           /\ RatLE(calc.decision.confidence, Rat(1, 1))
           /\ SufficientVolume
              => /\ \A s2 \in ScoreInputs :
                      (calc.config.bullishThreshold < calc.sentimentScore
                       /\ calc.sentimentScore <= s2)
                         => RatLE(calc.decision.confidence, ConfidenceAt(s2))
                 /\ \A s2 \in ScoreInputs :
                      (s2 <= calc.sentimentScore
                       /\ calc.sentimentScore < calc.config.bearishThreshold)
                         => RatLE(calc.decision.confidence, ConfidenceAt(s2))
                 /\ calc.sentimentScore = 100
                      => calc.decision.confidence = Rat(1, 1)
                 /\ calc.sentimentScore = -100
                      => calc.decision.confidence = Rat(1, 1)

\* the top sentiment over a bullish threshold other than the default one
C16_Witness ==
    /\ Decided /\ SufficientVolume
    /\ calc.sentimentScore = 100 /\ calc.config.bullishThreshold = 90
    /\ calc.decision.action = "BUY"
    /\ calc.decision.confidence = Rat(1, 1)

\* the non-HOLD part of C17: the amount is round(maxPositionSize * confidence)
AmountIsRoundedShare ==
    calc.decision.action # "HOLD"
        => /\ calc.decision.suggestedAmount # Undefined
           /\ IsRounded(calc.decision.suggestedAmount[1],
                        calc.config.maxPositionSize * calc.decision.confidence.n,
                        calc.decision.confidence.d)

\* C17 as stated: suggestedAmount is round(maxPositionSize * confidence) for a
\* non-HOLD action and 0 for every HOLD, the HOLD for insufficient sample
\* volume included.
C17_AmountZeroOnEveryHold ==
    Decided
        => /\ AmountIsRoundedShare
           /\ calc.decision.action = "HOLD" => calc.decision.suggestedAmount = <<0>>

\* C17: suggestedAmount is round(maxPositionSize * confidence) for a non-HOLD
\* action and 0 for the HOLD of the neutral zone; the HOLD returned for
\* insufficient sample volume carries no suggestedAmount.
C17_SuggestedAmount ==
    Decided
        => /\ AmountIsRoundedShare
           /\ (calc.decision.action = "HOLD" /\ SufficientVolume)
                 => calc.decision.suggestedAmount = <<0>>
           /\ ~SufficientVolume => calc.decision.suggestedAmount = Undefined

\* a BUY whose share of the position, 11.67, is rounded up to 12
C17_Witness ==
    /\ Decided /\ SufficientVolume
    /\ calc.decision.action = "BUY"
    /\ calc.decision.confidence = Rat(7, 60)
    /\ calc.config.maxPositionSize = 100
    /\ calc.decision.suggestedAmount = <<12>>

Fresh == calc.dataAgeMinutes <= calc.maxAgeMinutes

\* C18: adjustForDataAge is the identity whenever dataAgeMinutes <=
\* maxAgeMinutes: action, confidence, suggestedAmount and rationale of the
\* result are those of the input.
C18_FreshIsIdentity ==
    (Adjusted /\ Fresh)
        => /\ calc.adjusted.action = calc.decision.action
           /\ calc.adjusted.confidence = calc.decision.confidence
           /\ calc.adjusted.suggestedAmount = calc.decision.suggestedAmount
           /\ calc.adjusted.reason = calc.decision.reason
           /\ calc.adjusted.note = calc.decision.note

\* a weak BUY with a zero amount, the data being exactly of the maximum age
C18_Witness ==
    /\ Adjusted
    /\ calc.dataAgeMinutes = calc.maxAgeMinutes
    /\ calc.decision.action = "BUY"
    /\ calc.decision.confidence = Rat(1, 10)
    /\ calc.decision.suggestedAmount = <<0>>
    /\ calc.adjusted = calc.decision

\* max(0, 1 - (age - max) / (3 * max)) for the ages in calc
ExpectedAgeFactor ==
    IF calc.dataAgeMinutes >= 4 * calc.maxAgeMinutes
    THEN Rat(0, 1)
    ELSE Rat(3 * calc.maxAgeMinutes - (calc.dataAgeMinutes - calc.maxAgeMinutes),
             3 * calc.maxAgeMinutes)

\* the confidence part of C19
ConfidenceDecays ==
    /\ calc.adjusted.confidence.n * calc.decision.confidence.d * ExpectedAgeFactor.d
         = calc.decision.confidence.n * ExpectedAgeFactor.n * calc.adjusted.confidence.d
    /\ calc.dataAgeMinutes >= 4 * calc.maxAgeMinutes
         => calc.adjusted.confidence = Rat(0, 1)

Downgraded == calc.decision.action # "HOLD" /\ calc.adjusted.action = "HOLD"

C20_LowConfidenceAlwaysHolds ==
    (/\ Adjusted
     /\ RatLT(calc.adjusted.confidence, Rat(1, 5))
     /\ calc.decision.action # "HOLD")
        => /\ calc.adjusted.action = "HOLD"
           /\ calc.adjusted.suggestedAmount = <<0>>

\* C20: when the data is older than the maximum age, the decayed confidence is
\* below 0.2 and the input action is not HOLD, the result is HOLD with
\* suggestedAmount 0.
C20_StaleLowConfidenceHolds ==
    (/\ Adjusted /\ ~Fresh
     /\ RatLT(calc.adjusted.confidence, Rat(1, 5))
     /\ calc.decision.action # "HOLD")
        => /\ calc.adjusted.action = "HOLD"
           /\ calc.adjusted.suggestedAmount = <<0>>

\* BUY at confidence 0.3, maximum age 30, age 120: confidence 0 and HOLD
C20_Witness ==
    /\ Adjusted
    /\ calc.decision.action = "BUY"
    /\ calc.decision.confidence = Rat(3, 10)
    /\ calc.maxAgeMinutes = 30 /\ calc.dataAgeMinutes = 120
    /\ calc.adjusted.action = "HOLD"
    /\ calc.adjusted.confidence = Rat(0, 1)
    /\ calc.adjusted.suggestedAmount = <<0>>

\* makeDecision and then adjustForDataAge have returned, as in a cycle
FinalDecision == Decided /\ Adjusted

\* the decayed confidence is below the activation floor 0.2
BelowFloor == RatLT(calc.adjusted.confidence, Rat(1, 5))

\* C21 as stated: the final action is HOLD if and only if the sample is too
\* small, or the sentiment lies strictly between the two thresholds, or the
\* confidence after the freshness adjustment is below 0.2.
C21_HoldIffStrictlyBetween ==
    FinalDecision
        => (calc.adjusted.action = "HOLD"
              <=> \/ ~SufficientVolume
                  \/ /\ calc.config.bearishThreshold < calc.sentimentScore
                     /\ calc.sentimentScore < calc.config.bullishThreshold
                  \/ BelowFloor)

\* C21: the final action is HOLD if and only if the sample is too small, or
\* the sentiment lies between the two thresholds, both included, or the data
\* is older than the maximum age and the decayed confidence is below 0.2.
C21_HoldIff ==
    FinalDecision
        => (calc.adjusted.action = "HOLD"
              <=> \/ ~SufficientVolume
                  \/ /\ calc.config.bearishThreshold <= calc.sentimentScore
                     /\ calc.sentimentScore <= calc.config.bullishThreshold
                  \/ ~Fresh /\ BelowFloor)

\* a SELL of a large enough sample that stale data turned into HOLD
C21_Witness ==
    /\ FinalDecision /\ SufficientVolume
    /\ calc.sentimentScore < calc.config.bearishThreshold
    /\ calc.decision.action = "SELL"
    /\ ~Fresh
    /\ calc.adjusted.action = "HOLD"

-----------------------------------------------------------------------------
(* Properties of executeOnChainAction (specification ExecSpec) *)

\* executeOnChainAction has returned in process c
ExecReturned(c) == cyc[c].pc = "flip"

\* C22: in mock mode, for every action type, executeOnChainAction queries no
\* balance and no price, never calls swapTokens, and returns true.
C22_MockQueriesNothing ==
    LET cy == cyc[MockProcess]
    IN  /\ cy.balCalls = 0
        /\ cy.priceCalls = 0
        /\ cy.swapCalls = 0
        /\ ExecReturned(MockProcess) => cy.result = "true"

\* a mock WITHDRAW of 100 that was posted and returned true
C22_Witness ==
    /\ ExecReturned(MockProcess)
    /\ cyc[MockProcess].action = "WITHDRAW" /\ cyc[MockProcess].amount = 100
    /\ cyc[MockProcess].postCalls = 1
    /\ cyc[MockProcess].result = "true"

\* C23 as stated: for the same action, amount and confidence the mock
\* process and the real process make the same ledger write and the same
\* balance check and return the same boolean, unless the real swap itself
\* failed.
C23_MockParallelsReal ==
    (/\ ExecReturned(MockProcess) /\ ExecReturned(RealProcess)
     /\ ~cyc[RealProcess].swapFailed)
        => /\ cyc[MockProcess].recCalls = cyc[RealProcess].recCalls
           /\ cyc[MockProcess].balCalls = cyc[RealProcess].balCalls
           /\ cyc[MockProcess].result = cyc[RealProcess].result

\* the real process has read the balances and the price
RealFetched == cyc[RealProcess].priceCalls = 1 /\ ExecReturned(RealProcess)

\* C24 as stated: in real mode DEPOSIT is refused exactly when the USDC
\* balance is below amount * price and WITHDRAW exactly when the APT balance
\* is below the amount; neither calls swapTokens.
C24_DepositWithdrawChecks ==
    LET cy == cyc[RealProcess]
    IN  /\ (RealFetched /\ cy.action = "DEPOSIT")
              => /\ cy.result = "false" <=> cy.usdc < cy.amount * getAptPrice.price
                 /\ cy.swapCalls = 0
        /\ (RealFetched /\ cy.action = "WITHDRAW")
              => /\ cy.result = "false" <=> cy.apt < cy.amount
                 /\ cy.swapCalls = 0

-----------------------------------------------------------------------------
(* Properties of the agent and its ledger (specification Spec) *)

InFlight(c) == cyc[c].pc \notin {"idle", "done"}

\* C26 as stated: a cycle whose swap succeeded has appended a trade record
\* with its action and amount to the ledger, and between cycles the
\* is_invested flag of the ledger equals currentlyInvested.
C26_SwapAppendsTradeRecord ==
    /\ \A c \in Cycles :
          (cyc[c].pc = "done" /\ cyc[c].swapOk)
              => \E k \in TradeKeys(ledger) :
                    /\ ledger.trade_history[k].action = cyc[c].action
                    /\ ledger.trade_history[k].amount = cyc[c].amount
    /\ (\A c \in Cycles : ~InFlight(c)) => ledger.is_invested = currentlyInvested

\* a step of invocation c
CycleStep(c) ==
    \/ Decide(c) \/ RecordDone(c) \/ HoldingsDone(c) \/ HoldingsFail(c)
    \/ PriceDone(c) \/ SwapDone(c) \/ PostDone(c) \/ Flip(c)

\* C29: the scheduler survives every cycle outcome: whatever failed inside an
\* invocation of runHypeFlowAgent, the invocation goes on to its end and
\* never rejects, and whenever an invocation has ended the next tick can
\* start a new one.
C29_SchedulerSurvives ==
    \A c \in Cycles :
        /\ InFlight(c) => ENABLED CycleStep(c)
        /\ ~InFlight(c) => ENABLED (\E b \in Cycles : StartCycle(b))

\* both invocations have ended in a failure, one of the swap and one of the
\* balances
C29_Witness ==
    /\ cyc[1].pc = "done" /\ cyc[1].swapFailed /\ cyc[1].result = "false"
    /\ cyc[2].pc = "done" /\ cyc[2].balFailed /\ cyc[2].result = "false"

\* C30 as stated: at no time are two cycles in flight together.
C30_OneCycleAtATime ==
    Cardinality({c \in Cycles : InFlight(c)}) <= 1

-----------------------------------------------------------------------------
(* Properties of the chain helpers (specification ChainSpec) *)

\* the call of fn held in calc has settled
Settles(fn) == calc.source = fn /\ calc.stage = "returned"

\* C27: recordSentimentTrade never throws: when initMoveAgentKit or the
\* submission fails it returns a status; the status "skipped-no-address" is
\* returned exactly when the ledger address is not configured, so it differs
\* from the status of a failed submission and from a transaction hash; and
\* with no address configured no transaction is submitted.
C27_RecordNeverThrows ==
    Settles("recordSentimentTrade")
        => /\ ~calc.result.threw
           /\ calc.result.status # "none"
           /\ calc.result.status = "skipped-no-address" <=> ~calc.args.addressSet
           /\ ~calc.args.addressSet => ~calc.result.submitted
           /\ (calc.args.addressSet /\ calc.args.agentOk /\ ~calc.args.txOk)
                 => calc.result.status \notin {"skipped-no-address", "txhash"}

\* the address is configured and the submitted transaction was rejected
C27_Witness ==
    /\ Settles("recordSentimentTrade")
    /\ calc.args.addressSet /\ calc.args.agentOk /\ ~calc.args.txOk
    /\ calc.result.submitted
    /\ calc.result.status = "skipped-tx-error"

-----------------------------------------------------------------------------
(* Properties of the order of calls and of the gate (specification Spec) *)

\* invocation c has called swapTokens
SwapCalled(c) == cyc[c].swapCalls >= 1

\* C31: within one call of executeOnChainAction the collaborators are awaited
\* in the order record, holdings, price, swap, post: when swapTokens is
\* called, the recordSentimentTrade of the same invocation has settled and
\* getWalletBalances and getAptPrice were each called once in it and
\* resolved; the post is not made before the swap has settled; and every
\* await is entered from the one before it.
C31_FixedOrder ==
    [][\A c \in Cycles :
          /\ SwapCalled(c)'
                => /\ cyc'[c].recCalls = 1 /\ cyc'[c].recStatus # "none"
                   /\ cyc'[c].balCalls = 1 /\ ~cyc'[c].balFailed
                   /\ cyc'[c].priceCalls = 1
                   /\ cyc'[c].pc = "swap" => cyc'[c].postCalls = 0
          /\ (cyc'[c].pc = "holdings" /\ cyc[c].pc # "holdings") => cyc[c].pc = "record"
          /\ (cyc'[c].pc = "price" /\ cyc[c].pc # "price") => cyc[c].pc = "holdings"
          /\ (cyc'[c].pc = "swap" /\ cyc[c].pc # "swap") => cyc[c].pc = "price"
          /\ (cyc'[c].pc = "post" /\ cyc[c].pc # "post")
                => cyc[c].pc \in {"record", "price", "swap"}]_vars

\* after an invocation that fetched the balances has ended, another one
\* fetched them again, swapped and is posting
C31_Witness ==
    \E c, e \in Cycles :
        /\ c # e
        /\ cyc[c].pc = "done" /\ cyc[c].balCalls = 1
        /\ cyc[e].pc = "post" /\ cyc[e].swapOk /\ cyc[e].swapCalls = 1
        /\ cyc[e].balCalls = 1 /\ cyc[e].priceCalls = 1 /\ cyc[e].recCalls = 1
        /\ cyc[e].postCalls = 1

\* C32: there is no retry within a cycle: an invocation calls swapTokens at
\* most once and recordSentimentTrade at most once; a recording that
\* returned an error status and a swap that threw are not called again
\* (after the failed swap the call has returned).
C32_NoRetry ==
    \A c \in Cycles :
        /\ cyc[c].swapCalls <= 1
        /\ cyc[c].recCalls <= 1
        /\ cyc[c].swapFailed => Settled(c) /\ cyc[c].swapCalls = 1
        /\ cyc[c].recStatus # "none" => cyc[c].recCalls = 1

\* an invocation ended whose recording failed and whose swap threw
C32_Witness ==
    \E c \in Cycles :
        /\ cyc[c].pc = "done"
        /\ cyc[c].recStatus \in RecordErrorStatus /\ cyc[c].recCalls = 1
        /\ cyc[c].swapFailed /\ cyc[c].swapCalls = 1

\* invocation c has made its decision
HasDecided(c) == cyc[c].pc \notin {"idle", "tweets"}

\* the adjusted decision of invocation c passes the gate of step 5
PassesGate(c) == RatLT(Rat(1, 4), cyc[c].confidence) /\ cyc[c].action # "HOLD"

\* the number of collaborator calls made by invocation c
CollaboratorCalls(c) ==
    cyc[c].recCalls + cyc[c].balCalls + cyc[c].priceCalls + cyc[c].swapCalls
        + cyc[c].postCalls

DecisionAgreesWithFlagRead(c) ==
    /\ cyc[c].action \in {"BUY", "SELL"} => ~cyc[c].invBefore
    /\ cyc[c].action \in {"DEPOSIT", "WITHDRAW"} => cyc[c].invBefore

\* invocation c is submitting the swap of its BUY or SELL
Issuing(c, action) == cyc[c].pc = "swap" /\ cyc[c].action = action

\* C34 as stated: makeDecision returns BUY or SELL only when
\* currentlyInvested is false and DEPOSIT or WITHDRAW only when it is true;
\* hence no BUY is issued while currentlyInvested is true and every SELL is
\* issued while it is false.
C34_NoBuyWhileInvested ==
    \A c \in Cycles :
        /\ HasDecided(c) => DecisionAgreesWithFlagRead(c)
        /\ Issuing(c, "BUY") => ~currentlyInvested
        /\ Issuing(c, "SELL") => ~currentlyInvested

-----------------------------------------------------------------------------
(* Properties of the ledger over its whole history (specification LedgerSpec) *)

\* the ids of the trade records, in increasing order
TradeIdsInOrder(state) ==
    SelectSeq([i \in 1 .. state.next_record_id |-> i - 1],
              LAMBDA k : k \in TradeKeys(state))

\* the actions of the trade records, ordered by record id
TradeActionsInOrder(state) ==
    LET ids == TradeIdsInOrder(state)
    IN  [i \in 1 .. Len(ids) |-> state.trade_history[ids[i]].action]

\* the number of trade records with the given action
TradeCount(state, action) ==
    Cardinality({k \in TradeKeys(state) : state.trade_history[k].action = action})

\* C36: in every reachable ledger state the accepted trades, ordered by
\* record id, alternate BUY, SELL, BUY, ... starting with BUY; is_invested
\* is true exactly when the most recent trade is a BUY; and the number of
\* BUY records minus the number of SELL records is 1 when invested and 0
\* otherwise.
C36_TradesAlternate ==
    ledger.exists =>
        LET actions == TradeActionsInOrder(ledger)
        IN  /\ Len(actions) = Cardinality(TradeKeys(ledger))
            /\ \A i \in 1 .. Len(actions) :
                  actions[i] = IF i % 2 = 1 THEN "BUY" ELSE "SELL"
            /\ ledger.is_invested
                  <=> (Len(actions) > 0 /\ actions[Len(actions)] = "BUY")
            /\ TradeCount(ledger, "BUY") - TradeCount(ledger, "SELL")
                  = IF ledger.is_invested THEN 1 ELSE 0

\* BUY, SELL, BUY were accepted, in that order of record ids
C36_Witness ==
    /\ ledger.exists /\ ledger.is_invested
    /\ TradeIdsInOrder(ledger) = <<0, 1, 2>>
    /\ TradeActionsInOrder(ledger) = <<"BUY", "SELL", "BUY">>

\* the resource that initialize publishes
FreshLedger ==
    /\ ledger'.exists
    /\ ~ledger'.is_invested
    /\ ledger'.sentiment_history = << >>
    /\ ledger'.trade_history = << >>
    /\ ledger'.trade_events = << >>
    /\ ledger'.current_sentiment = 0
    /\ ledger'.next_record_id = 0

\* C37: initialize succeeds at most once per account: on an account without
\* the resource it publishes the state NotInvested with empty histories and
\* next_record_id 0, on an account that has it it aborts and leaves the
\* state as it is, and the resource is never removed; update_sentiment,
\* execute_buy and execute_sell abort with no effect on an account that was
\* never initialized.
C37_InitializeOnce ==
    [][/\ CallStep("initialize")
             => IF ledger.exists
                THEN lastCall'.aborted /\ ledger' = ledger
                ELSE ~lastCall'.aborted /\ FreshLedger
       /\ ledger.exists => ledger'.exists
       /\ \A fn \in {"update_sentiment", "execute_buy", "execute_sell"} :
             (CallStep(fn) /\ ~ledger.exists)
                 => /\ lastCall'.aborted
                    /\ lastCall'.code = ERR_UNAUTHORIZED
                    /\ ledger' = ledger]_vars

\* a second initialize was rejected on an invested ledger that holds records
C37_Witness ==
    /\ lastCall.fn = "initialize" /\ lastCall.aborted
    /\ ledger.exists /\ ledger.is_invested
    /\ SentimentKeys(ledger) # {} /\ TradeKeys(ledger) # {}

-----------------------------------------------------------------------------
(* Properties of adjustForDataAge over all ages (specification DecisionSpec) *)

\* the result of adjustForDataAge for the decision held in calc at age a
AdjustedAt(a) == adjustForDataAge(calc.decision, a, calc.maxAgeMinutes)

-----------------------------------------------------------------------------
(* Properties of a trade of amount 0 (specification ExecSpec) *)

-----------------------------------------------------------------------------
(* Properties of the transfer script (specification TransferSpec) *)

\* C39 as stated: transferTokens submits no transfer transaction when the
\* user does not confirm with 'y', and submits none when the fetched sender
\* balance is less than amount + gasAmount * gasUnitPrice.
C39_TransferGuards ==
    /\ (calc.confirmation # "none" /\ ToLowerCase(calc.confirmation) # "y")
          => calc.submitCalls = 0 /\ calc.result = "false"
    /\ (calc.fetched /\ InsufficientBalance(calc.senderBalance, calc.amount))
          => calc.submitCalls = 0

====
